---------------------------- MODULE Spec2Model ----------------------------
(***************************************************************************)
(* A2A SerpAPI hotel agent (src/a2a-serpapi-agent/main.py).                *)
(*                                                                         *)
(* Two state machines share this module:                                   *)
(*   Spec        the JSON-RPC front end POST /a2a (handle_a2a) with the    *)
(*               in-memory task store `tasks`;                             *)
(*   SpecSearch  one invocation of a skill (search_hotels_live /           *)
(*               get_hotel_details) on inputs drawn from bounded sets.     *)
(*                                                                         *)
(* Encoding of Python/JSON values:                                         *)
(*   - an optional value (dict.get(k) that may be None, a JSON null or a   *)
(*     missing key) is a sequence of length <= 1: None == <<>>, <<v>>;     *)
(*   - numbers are integers (a rating 4.0 is written 4);                   *)
(*   - a loosely typed JSON value is a record tagged by `kind`;            *)
(*   - a task id (str(uuid.uuid4())) is a positive integer: the n-th       *)
(*     identifier the process generated.                                   *)
(***************************************************************************)
EXTENDS Integers, Sequences, FiniteSets, TLC

VARIABLES
    apiKey,     \* SERPAPI_API_KEY is non-empty (module global, fixed at import)
    tasks,      \* the task store: task id -> [state, data]
    issued,     \* number of uuid4() identifiers generated so far
    inflight,   \* tasks/send handlers suspended at the awaited upstream GET
    last,       \* the last request handled and the HTTP response it got
    sent,       \* ids that a tasks/send response has returned (history)
    call,       \* SpecSearch: the skill invocation (skill id, params, upstream)
    out         \* SpecSearch: what the invocation produced

vars == <<apiKey, tasks, issued, inflight, last, sent, call, out>>

---------------------------------------------------------------------------
(* Python values *)

None == <<>>

Some(v) == <<v>>

\* bool(x) of an optional number: None and 0 are falsy
TruthyNum(o) == o # None /\ o[1] # 0

\* bool(x) of an optional string: None and "" are falsy
TruthyStr(o) == o # None /\ o[1] # ""

\* `a or b` on optional strings
OrElse(a, b) == IF TruthyStr(a) THEN a ELSE b

Min(a, b) == IF a <= b THEN a ELSE b

\* seq[:n]
Take(s, n) == SubSeq(s, 1, Min(n, Len(s)))

---------------------------------------------------------------------------
(* Program constants *)

\* properties[:10]
MaxHotels == 10

\* prop.get("images", [])[:6]
MaxImages == 6

ParseErrorCode == -32700

MethodNotFoundCode == -32601

TaskNotFoundCode == -32000

---------------------------------------------------------------------------
(* Skill results *)

\* the uniform failure payload {"success": False, "error": <message>};
\* f"<text>: {arg}" is kept as the pair (text, arg)
Failure(text, arg) == [success |-> FALSE, error |-> [text |-> text, arg |-> arg]]

\* str(status_code) for the statuses the model's upstream answers with
StatusStr(code) ==
    CASE code = 429 -> "429"
      [] code = 500 -> "500"
      [] OTHER -> "other"

---------------------------------------------------------------------------
(* search_hotels_live *)

\* check_in / check_out: the given date, else tomorrow / tomorrow + 2 days
DefaultDate(given, dflt) == IF TruthyStr(given) THEN given[1] ELSE dflt

\* the three price keys of serpapi_params; None == the key is not in the dict.
\* f"{min_price},{max_price}" is kept as the pair <<min_price, max_price>>.
PriceFilter(min_price, max_price) ==
    IF min_price # None \/ max_price # None
    THEN IF TruthyNum(min_price) /\ TruthyNum(max_price)
         THEN [price |-> Some(<<min_price[1], max_price[1]>>),
               min_price |-> None, max_price |-> None]
         ELSE IF TruthyNum(min_price)
         THEN [price |-> None, min_price |-> min_price, max_price |-> None]
         ELSE IF TruthyNum(max_price)
         THEN [price |-> None, min_price |-> None, max_price |-> max_price]
         ELSE [price |-> None, min_price |-> None, max_price |-> None]
    ELSE [price |-> None, min_price |-> None, max_price |-> None]

\* the query sent to SERPAPI_BASE_URL by search_hotels_live
serpapi_params(params) ==
    LET pf == PriceFilter(params.minPrice, params.maxPrice)
    IN  [engine |-> "google_hotels",
         q |-> IF params.destination = None THEN "" ELSE params.destination[1],
         check_in_date |-> DefaultDate(params.checkInDate, "tomorrow"),
         check_out_date |-> DefaultDate(params.checkOutDate, "tomorrow+2"),
         adults |-> IF params.adults = None THEN 2 ELSE params.adults[1],
         currency |-> IF params.currency = None THEN "USD" ELSE params.currency[1],
         hl |-> "en",
         gl |-> "us",
         price |-> pf.price,
         min_price |-> pf.min_price,
         max_price |-> pf.max_price]

\* a slip in the fallback order: original_image preferred over thumbnail
ImageUrl_OriginalFirst(img) == OrElse(img.original_image, img.thumbnail)

\* img.get("thumbnail") or img.get("original_image")
ImageUrl(img) == OrElse(img.thumbnail, img.original_image)

\* [url(img) for img in imgs if url(img)]
RECURSIVE ImageUrls(_)
ImageUrls(imgs) ==
    IF imgs = <<>> THEN <<>>
    ELSE LET u == ImageUrl(Head(imgs))
         IN  (IF TruthyStr(u) THEN <<u[1]>> ELSE <<>>) \o ImageUrls(Tail(imgs))

\* the "images" field of a hotel record
ExtractImages(raw_images) == ImageUrls(Take(raw_images, MaxImages))

\* the hotel record built from one upstream property
Hotel(prop, currency, check_in, check_out) ==
    [name |-> prop.name,
     rating |-> prop.overall_rating,
     currency |-> currency,
     images |-> ExtractImages(prop.images),
     pricePerNight |-> IF prop.rate_per_night # None
                       THEN prop.rate_per_night[1].extracted_lowest ELSE None,
     price |-> IF prop.rate_per_night # None
               THEN prop.rate_per_night[1].lowest ELSE None,
     totalPrice |-> IF prop.total_rate # None
                    THEN prop.total_rate[1].extracted_lowest ELSE None,
     checkIn |-> check_in,
     checkOut |-> check_out]

\* the rating filter: the record is skipped (`continue`)
Skipped(min_rating, rating) ==
    /\ TruthyNum(min_rating) /\ TruthyNum(rating)
    /\ rating[1] < min_rating[1]

\* the loop over properties[:10]
RECURSIVE Hotels(_, _, _, _, _)
Hotels(props, min_rating, currency, check_in, check_out) ==
    IF props = <<>> THEN <<>>
    ELSE LET hotel == Hotel(Head(props), currency, check_in, check_out)
             rest == Hotels(Tail(props), min_rating, currency, check_in, check_out)
         IN  IF Skipped(min_rating, hotel.rating) THEN rest ELSE <<hotel>> \o rest

\* a slip: the list is not cut to 10 before the loop
FirstProperties_Uncut(properties) == properties

\* properties[:10]
FirstProperties(properties) == Take(properties, MaxHotels)

\* the upstream response handled inside the try block
SearchResponse(params, up) ==
    LET q == serpapi_params(params)
        first == FirstProperties(up.properties)
        hotels == Hotels(first, params.minRating, q.currency,
                         q.check_in_date, q.check_out_date)
    IN  IF up.kind = "status"
        THEN Failure("SerpAPI request failed", StatusStr(up.status))
             @@ [hotels |-> <<>>]
        ELSE IF up.kind = "fail"
                \/ \E i \in 1..Len(first) : first[i].kind # "obj"
        THEN Failure("Failed to search hotels", "exception") @@ [hotels |-> <<>>]
        ELSE [success |-> TRUE,
              destination |-> q.q,
              checkIn |-> q.check_in_date,
              checkOut |-> q.check_out_date,
              hotelCount |-> Len(hotels),
              hotels |-> hotels,
              source |-> "Google Hotels via SerpAPI"]

\* search_hotels_live(params): [query, result]; query is None when no request
\* went out
search_hotels_live(params, key, up) ==
    IF ~key
    THEN [query |-> None,
          result |-> Failure("SerpAPI API key not configured",
                             "Please set SERPAPI_API_KEY environment variable")
                     @@ [hotels |-> <<>>]]
    ELSE [query |-> Some(serpapi_params(params)),
          result |-> SearchResponse(params, up)]

---------------------------------------------------------------------------
(* get_hotel_details and execute_skill *)

\* get_hotel_details(params): [query, result]
get_hotel_details(params, key, up) ==
    IF ~TruthyStr(params.propertyToken)
    THEN [query |-> None, result |-> Failure("Property token is required", "")]
    ELSE IF ~key
    THEN [query |-> None, result |-> Failure("SerpAPI API key not configured", "")]
    ELSE [query |-> Some([engine |-> "google_hotels",
                          property_token |-> params.propertyToken[1],
                          check_in_date |-> DefaultDate(params.checkInDate, "tomorrow"),
                          check_out_date |-> DefaultDate(params.checkOutDate, "tomorrow+2"),
                          hl |-> "en",
                          gl |-> "us"]),
          result |-> IF up.kind = "ok"
                     THEN [success |-> TRUE,
                           hotel |-> [properties |-> up.properties],
                           source |-> "Google Hotels via SerpAPI"]
                     ELSE Failure("Failed to get hotel details", "exception")]

KnownSkills == {"search-hotels-live", "get-hotel-details"}

\* execute_skill(skill_id, params).  task_params is the loosely typed value
\* the handler extracted: [kind |-> "dict", val |-> <the dict>] or a value of
\* another JSON type, on which the skill's first params.get(...) raises
\* AttributeError outside any try block.
\* raised: the exception left execute_skill; awaited: the upstream GET was
\* issued, so the coroutine suspended.
execute_skill(skill_id, task_params, key, up) ==
    IF skill_id \notin KnownSkills
    THEN [raised |-> FALSE, awaited |-> FALSE, query |-> None,
          result |-> Some(Failure("Unknown skill", skill_id))]
    ELSE IF task_params.kind # "dict"
    THEN [raised |-> TRUE, awaited |-> FALSE, query |-> None, result |-> None]
    ELSE LET r == IF skill_id = "search-hotels-live"
                  THEN search_hotels_live(task_params.val, key, up)
                  ELSE get_hotel_details(task_params.val, key, up)
         IN  [raised |-> FALSE, awaited |-> r.query # None, query |-> r.query,
              result |-> Some(r.result)]

---------------------------------------------------------------------------
(* Inputs of a skill invocation *)

\* the task parameter dict; None == the key is absent
NoParams ==
    [destination |-> None, checkInDate |-> None, checkOutDate |-> None,
     adults |-> None, currency |-> None, minPrice |-> None, maxPrice |-> None,
     minRating |-> None, propertyToken |-> None]

Dict(d) == [kind |-> "dict", val |-> d]

\* a task parameter value that is not a JSON object (a string, list, number, null)
NonObject == [kind |-> "nonobj"]

\* an upstream property object
Prop(name, rating, images) ==
    [kind |-> "obj", name |-> name, overall_rating |-> rating, images |-> images,
     rate_per_night |-> None, total_rate |-> None]

\* an upstream image object
Image(thumbnail, original, original_image) ==
    [thumbnail |-> thumbnail, original |-> original, original_image |-> original_image]

UpOk(properties) == [kind |-> "ok", status |-> 200, properties |-> properties]

UpStatus(code) == [kind |-> "status", status |-> code, properties |-> <<>>]

UpFail == [kind |-> "fail", status |-> 0, properties |-> <<>>]

\* bounds of the enumerated inputs
MaxHead == 2

MaxPad == 9

MaxImgHead == 2

MaxImgPad == 5

SeqsUpTo(S, n) == UNION {[1..k -> S] : k \in 0..n}

PriceValues == {0, 100, 300}

OptPrices == {None} \cup {Some(p) : p \in PriceValues}

MinRatings == {None, Some(0), Some(4)}

Ratings == {None, Some(0), Some(3), Some(4), Some(5)}

\* a property list: `head` ratings, then `pad` entries rated r; the name of
\* an entry is its upstream position
RatedProps(head, r, pad) ==
    [i \in 1..(Len(head) + pad) |->
        Prop(i, IF i <= Len(head) THEN head[i] ELSE r, <<>>)]

PropLists ==
    {RatedProps(h, r, n) : h \in SeqsUpTo(Ratings, MaxHead), r \in Ratings, n \in 0..MaxPad}

\* {}, {thumbnail}, {original}, {original_image}, an empty thumbnail with an
\* original_image, and both URLs
ImageObjs ==
    {Image(None, None, None),
     Image(Some("a"), None, None),
     Image(None, Some("b"), None),
     Image(None, None, Some("c")),
     Image(Some(""), None, Some("c")),
     Image(Some("a"), None, Some("c"))}

ImageLists ==
    {h \o [i \in 1..n |-> img] :
        h \in SeqsUpTo(ImageObjs, MaxImgHead), img \in ImageObjs, n \in 0..MaxImgPad}

Call(skill_id, task_params, up) ==
    [skill_id |-> skill_id, task_params |-> task_params, up |-> up]

\* price filter cases, with every upstream outcome
PriceCalls ==
    {Call("search-hotels-live",
          Dict([NoParams EXCEPT !.destination = Some("Paris"),
                                !.minPrice = lo, !.maxPrice = hi]), up) :
        lo \in OptPrices, hi \in OptPrices,
        up \in {UpOk(<<>>), UpStatus(429), UpStatus(500), UpFail,
                UpOk(<<NonObject>>),
                UpOk(<<[Prop(1, Some(4), <<>>) EXCEPT
                          !.rate_per_night = Some([lowest |-> Some("$120"),
                                                   extracted_lowest |-> Some(120)]),
                          !.total_rate = Some([extracted_lowest |-> Some(240)])]>>)}}

\* rating filter and truncation cases
RatingCalls ==
    {Call("search-hotels-live", Dict([NoParams EXCEPT !.minRating = m]), UpOk(ps)) :
        m \in MinRatings, ps \in PropLists}

\* image extraction cases
ImageCalls ==
    {Call("search-hotels-live", Dict(NoParams),
          UpOk(<<Prop(1, None, imgs)>>)) : imgs \in ImageLists}

\* the other skill, unknown skills and loosely typed parameters
OtherCalls ==
    {Call(sk, tp, up) :
        sk \in KnownSkills \cup {"book-hotel", ""},
        tp \in {Dict(NoParams), NonObject,
                Dict([NoParams EXCEPT !.propertyToken = Some("")]),
                Dict([NoParams EXCEPT !.propertyToken = Some("tok")])},
        up \in {UpOk(<<>>), UpStatus(500), UpFail}}

SkillCalls == PriceCalls \cup RatingCalls \cup ImageCalls \cup OtherCalls

---------------------------------------------------------------------------
(* JSON-RPC envelopes and HTTP responses *)

\* create_json_rpc_response(id, result)
create_json_rpc_response(id, result) ==
    [kind |-> "result", id |-> id, result |-> result]

\* create_json_rpc_error(id, code, message)
create_json_rpc_error(id, code, message) ==
    [kind |-> "error", id |-> id, error |-> [code |-> code, message |-> message]]

\* JSONResponse(content=...): always status_code 200
JSONResponse(content) == [status |-> 200, content |-> content]

\* an exception that leaves handle_a2a: the server answers 500 with no
\* JSON-RPC envelope
InternalServerError == [status |-> 500, content |-> [kind |-> "none"]]

---------------------------------------------------------------------------
(* Request bodies of POST /a2a *)

Absent == [kind |-> "absent"]

Str(v) == [kind |-> "str", val |-> v]

\* a JSON array or object where a string / hashable key is expected
List == [kind |-> "list"]

Num == [kind |-> "num"]

\* one entry of message["parts"]
TextPart == [kind |-> "dict", type |-> "text", data |-> Absent]

DataPart(data) == [kind |-> "dict", type |-> "data", data |-> data]

\* params["message"] with a "parts" value
Message(parts) == [kind |-> "dict", parts |-> parts]

Parts(seq) == [kind |-> "list", val |-> seq]

\* the params dict: None-like Absent == the key is missing
Params(message, skillId, id) == [message |-> message, skillId |-> skillId, id |-> id]

\* rpc_request.params or {}
EmptyParams == Params(Absent, "", Absent)

\* a body that is a JSON object; method and params are loosely typed
Body(id, method, params) ==
    [form |-> "object", id |-> id, method |-> method, params |-> params]

\* a body request.json() cannot parse
Unparsable == [form |-> "unparsable"]

\* a body that parses to a JSON value other than an object
NonObjectBody == [form |-> "nonobject"]

\* a slip: params is taken as it comes, whatever its type
WellFormed_AnyParams(body) ==
    /\ body.form = "object"
    /\ body.method.kind = "str"

\* JsonRpcRequest(**body) succeeds: method is a string, params a dict or null
WellFormed(body) ==
    /\ body.form = "object"
    /\ body.method.kind = "str"
    /\ body.params.kind \in {"absent", "null", "dict"}

\* params = rpc_request.params or {}
ParamsOf(body) == IF body.params.kind = "dict" THEN body.params.val ELSE EmptyParams

\* for part in parts: if part.get("type") == "data": task_params = part.get("data", {}); break
RECURSIVE ScanParts(_)
ScanParts(parts) ==
    IF parts = <<>> THEN [raised |-> FALSE, task_params |-> Dict(NoParams)]
    ELSE LET part == Head(parts)
         IN  IF part.kind # "dict" THEN [raised |-> TRUE, task_params |-> Absent]
             ELSE IF part.type = "data"
             THEN [raised |-> FALSE,
                   task_params |-> IF part.data.kind = "absent"
                                   THEN Dict(NoParams) ELSE part.data]
             ELSE ScanParts(Tail(parts))

\* lines 457-468: the data payload of the message; raised == message.get or
\* part.get or the iteration raised (message or a part is not an object,
\* parts is not iterable)
ExtractTaskParams(message) ==
    IF message.kind = "absent" THEN [raised |-> FALSE, task_params |-> Dict(NoParams)]
    ELSE IF message.kind # "dict" THEN [raised |-> TRUE, task_params |-> Absent]
    ELSE IF message.parts.kind = "absent"
    THEN [raised |-> FALSE, task_params |-> Dict(NoParams)]
    ELSE IF message.parts.kind # "list" THEN [raised |-> TRUE, task_params |-> Absent]
    ELSE ScanParts(message.parts.val)

\* the task stored and returned by tasks/send
Task(task_id, result) ==
    [id |-> task_id,
     status |-> [state |-> "completed"],
     artifacts |-> <<[parts |-> <<[type |-> "data", data |-> result,
                                   mimeType |-> "application/json"]>>]>>]

\* tasks[task_id] = task
Put(store, task_id, task) ==
    [k \in DOMAIN store \cup {task_id} |-> IF k = task_id THEN task ELSE store[k]]

\* `task_id in tasks` raises TypeError for an unhashable key
Unhashable(id) == id.kind = "list"

\* task_id in tasks (for a hashable task_id)
InStore(id, store) == id.kind = "str" /\ id.val \in DOMAIN store

---------------------------------------------------------------------------
(* Spec: the front end POST /a2a *)

\* bounds: identifiers generated, handlers suspended at the upstream call
MaxTasks == 1

MaxInflight == 1

RequestIds == {"r1"}

\* the parameter dict the model's callers send
SomeParams ==
    [NoParams EXCEPT !.destination = Some("Paris"), !.propertyToken = Some("tok")]

\* the message shapes the model's callers send
Messages ==
    {Absent, NonObject, Message(Absent), Message(Num),
     Message(Parts(<<>>)),
     Message(Parts(<<NonObject>>)),
     Message(Parts(<<TextPart, DataPart(Dict(SomeParams))>>)),
     Message(Parts(<<DataPart(Dict(SomeParams)), NonObject>>)),
     Message(Parts(<<DataPart(Absent)>>)),
     Message(Parts(<<DataPart(NonObject)>>))}

SkillIds == KnownSkills \cup {"book-hotel"}

\* the id values of tasks/get and tasks/cancel: missing, a uuid string (one
\* the process generated or not), an unhashable JSON value, a number
TaskIdValues == {Absent, List, Num} \cup {Str(n) : n \in 1..(MaxTasks + 1)}

SendBodies ==
    {Body(r, Str("tasks/send"), Dict(Params(m, sk, Absent))) :
        r \in RequestIds, m \in Messages, sk \in SkillIds}

LookupBodies ==
    {Body(r, Str(meth), Dict(Params(Absent, "", id))) :
        r \in RequestIds, meth \in {"tasks/get", "tasks/cancel"}, id \in TaskIdValues}

\* well-formed envelopes with another method, or with no params
OtherBodies ==
    {Body(r, Str(meth), ps) :
        r \in RequestIds,
        meth \in {"tasks/list", "", "tasks/send", "tasks/get", "tasks/cancel"},
        ps \in {Absent, [kind |-> "null"]}}
    \cup {Body(r, Str("tasks/list"), Dict(Params(Message(Num), "search-hotels-live", Str(1)))) :
            r \in RequestIds}

\* bodies that do not parse or violate the JsonRpcRequest schema
MalformedBodies ==
    {Unparsable, NonObjectBody,
     Body("r1", Absent, Absent),
     Body("r1", List, Dict(EmptyParams)),
     Body("r1", Str("tasks/send"), Str("x")),
     Body("r1", Str("tasks/get"), Num)}

Bodies == SendBodies \cup LookupBodies \cup OtherBodies \cup MalformedBodies

\* the upstream's answers to the front end's skill calls
Upstreams == {UpOk(<<Prop(1, Some(4), <<>>)>>), UpStatus(500), UpFail}

Init ==
    /\ apiKey \in BOOLEAN
    /\ tasks = <<>>
    /\ issued = 0
    /\ inflight = {}
    /\ last = None
    /\ sent = {}
    /\ call = None
    /\ out = None

\* the request handled last, the HTTP response it got and (history) the
\* stored state of the task it addressed as it was before the request
Answer(body, resp, was) == Some([req |-> body, resp |-> resp, was |-> was])

\* the stored state of the task a tasks/get or tasks/cancel addresses
StateOf(id, store) ==
    IF InStore(id, store) THEN store[id.val].status.state ELSE "none"

Method(body) == body.method.val

\* lines 437-445: the body does not parse or fails validation
ParseError(body) ==
    /\ ~WellFormed(body)
    /\ last' = Answer(body, JSONResponse(
                   create_json_rpc_error(None, ParseErrorCode, "Parse error")),
                   "none")
    /\ UNCHANGED <<apiKey, tasks, issued, inflight, sent, call, out>>

\* lines 479-500: the task is stored under task_id and returned
Complete(body, task_id, result) ==
    LET task == Task(task_id, result)
    IN  /\ tasks' = Put(tasks, task_id, task)
        /\ last' = Answer(body, JSONResponse(
                       create_json_rpc_response(Some(body.id), task)), "none")
        /\ sent' = sent \cup {task_id}

\* a slip: the identifier is derived from the size of the store, so two
\* handlers suspended together are given the same one
uuid4_FromStoreSize == Cardinality(DOMAIN tasks) + 1

\* str(uuid.uuid4()): an identifier no earlier call returned, written as the
\* number of the call
uuid4 == issued + 1

\* lines 455-500, up to the awaited upstream call or, when the skill makes
\* none, to the response.  Whether the skill raises, returns at once or
\* suspends at the upstream GET does not depend on the upstream's answer, so
\* `run` is evaluated with an arbitrary one; a suspended handler gets its
\* answer in UpstreamReturns.
Send(body, maxTasks, maxInflight) ==
    /\ WellFormed(body)
    /\ Method(body) = "tasks/send"
    /\ LET params == ParamsOf(body)
           ex == ExtractTaskParams(params.message)
           task_id == uuid4
           run == execute_skill(params.skillId, ex.task_params, apiKey, UpFail)
       IN  IF ex.raised
           THEN /\ last' = Answer(body, InternalServerError, "none")
                /\ UNCHANGED <<tasks, issued, inflight, sent>>
           ELSE /\ issued < maxTasks
                /\ issued' = issued + 1
                /\ IF run.raised
                   THEN /\ last' = Answer(body, InternalServerError, "none")
                        /\ UNCHANGED <<tasks, inflight, sent>>
                   ELSE IF run.awaited
                   THEN /\ Cardinality(inflight) < maxInflight
                        /\ inflight' = inflight \cup
                               {[body |-> body, task_id |-> task_id,
                                 skill_id |-> params.skillId,
                                 task_params |-> ex.task_params]}
                        /\ UNCHANGED <<tasks, last, sent>>
                   ELSE /\ Complete(body, task_id, run.result[1])
                        /\ UNCHANGED inflight
    /\ UNCHANGED <<apiKey, call, out>>

\* tasks/send within the bounds of Spec
TasksSend(body) == Send(body, MaxTasks, MaxInflight)

\* the upstream call of a suspended tasks/send returns (or fails) and the
\* handler runs to its response (lines 477-500)
UpstreamReturns(h, up) ==
    /\ h \in inflight
    /\ LET run == execute_skill(h.skill_id, h.task_params, apiKey, up)
       IN  Complete(h.body, h.task_id, run.result[1])
    /\ inflight' = inflight \ {h}
    /\ UNCHANGED <<apiKey, issued, call, out>>

\* lines 502-512
TasksGet(body) ==
    /\ WellFormed(body)
    /\ Method(body) = "tasks/get"
    /\ LET task_id == ParamsOf(body).id
       IN  last' = Answer(body,
               IF Unhashable(task_id) THEN InternalServerError
               ELSE IF InStore(task_id, tasks)
               THEN JSONResponse(create_json_rpc_response(Some(body.id),
                                                         tasks[task_id.val]))
               ELSE JSONResponse(create_json_rpc_error(Some(body.id),
                                     TaskNotFoundCode, "Task not found")),
               StateOf(task_id, tasks))
    /\ UNCHANGED <<apiKey, tasks, issued, inflight, sent, call, out>>

\* a slip: cancelling a task that is already canceled is refused
TasksCancel_NotIdempotent(body) ==
    /\ WellFormed(body)
    /\ Method(body) = "tasks/cancel"
    /\ LET task_id == ParamsOf(body).id
       IN  IF InStore(task_id, tasks) /\ StateOf(task_id, tasks) = "completed"
           THEN /\ tasks' = [tasks EXCEPT ![task_id.val].status.state = "canceled"]
                /\ last' = Answer(body, JSONResponse(
                               create_json_rpc_response(Some(body.id),
                                                        tasks'[task_id.val])),
                               StateOf(task_id, tasks))
           ELSE /\ last' = Answer(body, JSONResponse(
                               create_json_rpc_error(Some(body.id),
                                   TaskNotFoundCode, "Task not found")),
                               StateOf(task_id, tasks))
                /\ UNCHANGED tasks
    /\ UNCHANGED <<apiKey, issued, inflight, sent, call, out>>

\* a slip: cancel toggles the state, so a canceled task becomes completed again
TasksCancel_Toggle(body) ==
    /\ WellFormed(body)
    /\ Method(body) = "tasks/cancel"
    /\ LET task_id == ParamsOf(body).id
       IN  IF InStore(task_id, tasks)
           THEN /\ tasks' = [tasks EXCEPT ![task_id.val].status.state =
                                 IF @ = "completed" THEN "canceled" ELSE "completed"]
                /\ last' = Answer(body, JSONResponse(
                               create_json_rpc_response(Some(body.id),
                                                        tasks'[task_id.val])),
                               StateOf(task_id, tasks))
           ELSE /\ last' = Answer(body, JSONResponse(
                               create_json_rpc_error(Some(body.id),
                                   TaskNotFoundCode, "Task not found")),
                               "none")
                /\ UNCHANGED tasks
    /\ UNCHANGED <<apiKey, issued, inflight, sent, call, out>>

\* lines 514-525
TasksCancel(body) ==
    /\ WellFormed(body)
    /\ Method(body) = "tasks/cancel"
    /\ LET task_id == ParamsOf(body).id
       IN  IF Unhashable(task_id)
           THEN /\ last' = Answer(body, InternalServerError, "none")
                /\ UNCHANGED tasks
           ELSE IF InStore(task_id, tasks)
           THEN /\ tasks' = [tasks EXCEPT ![task_id.val].status.state = "canceled"]
                /\ last' = Answer(body, JSONResponse(
                               create_json_rpc_response(Some(body.id),
                                                        tasks'[task_id.val])),
                               StateOf(task_id, tasks))
           ELSE /\ last' = Answer(body, JSONResponse(
                               create_json_rpc_error(Some(body.id),
                                   TaskNotFoundCode, "Task not found")),
                               "none")
                /\ UNCHANGED tasks
    /\ UNCHANGED <<apiKey, issued, inflight, sent, call, out>>

\* lines 527-531
MethodNotFound(body) ==
    /\ WellFormed(body)
    /\ Method(body) \notin {"tasks/send", "tasks/get", "tasks/cancel"}
    /\ last' = Answer(body, JSONResponse(
                   create_json_rpc_error(Some(body.id), MethodNotFoundCode,
                                         "Method not found")),
                   "none")
    /\ UNCHANGED <<apiKey, tasks, issued, inflight, sent, call, out>>

\* handle_a2a: one request, or one suspended handler resuming
Next ==
    \/ \E body \in Bodies : ParseError(body)
    \/ \E body \in Bodies : TasksSend(body)
    \/ \E h \in inflight, up \in Upstreams : UpstreamReturns(h, up)
    \/ \E body \in Bodies : TasksGet(body)
    \/ \E body \in Bodies : TasksCancel(body)
    \/ \E body \in Bodies : MethodNotFound(body)

Spec == Init /\ [][Next]_vars

---------------------------------------------------------------------------
(* SpecConc: handlers interleaving at the awaited upstream call *)

\* bounds: identifiers generated, handlers suspended together
MaxConcTasks == 2

MaxConcInflight == 2

\* tasks/send of each skill with an object payload, and tasks/get and
\* tasks/cancel of each identifier the process may generate
ConcBodies ==
    {Body("r1", Str("tasks/send"),
          Dict(Params(Message(Parts(<<DataPart(Dict(SomeParams))>>)), sk, Absent))) :
        sk \in SkillIds}
    \cup {Body("r1", Str(meth), Dict(Params(Absent, "", Str(n)))) :
            meth \in {"tasks/get", "tasks/cancel"}, n \in 1..MaxConcTasks}

\* the event loop runs one handler at a time from one await to the next: a
\* request is handled up to its response or its upstream call, or a suspended
\* tasks/send resumes with the upstream's answer
NextConc ==
    \/ \E body \in ConcBodies : Send(body, MaxConcTasks, MaxConcInflight)
    \/ \E h \in inflight, up \in Upstreams : UpstreamReturns(h, up)
    \/ \E body \in ConcBodies : TasksGet(body)
    \/ \E body \in ConcBodies : TasksCancel(body)

SpecConc == Init /\ [][NextConc]_vars

---------------------------------------------------------------------------
(* Claims about the front end (checked under Spec) *)

LastReq == last[1].req

LastResp == last[1].resp

\* HTTP 200 carrying a JSON-RPC success envelope
IsResult(resp) == resp.status = 200 /\ resp.content.kind = "result"

\* HTTP 200 carrying a JSON-RPC error envelope with this code
IsError(resp, code) ==
    /\ resp.status = 200
    /\ resp.content.kind = "error"
    /\ resp.content.error.code = code

\* the body is unparsable or violates the envelope schema
Malformed(body) ==
    \/ body.form # "object"
    \/ body.method.kind # "str"
    \/ body.params.kind \notin {"absent", "null", "dict"}

\* a well-formed envelope with this method
MethodIs(body, m) == ~Malformed(body) /\ body.method.val = m

\* the "id" of the envelope's params
AddressedId(body) ==
    IF body.params.kind = "dict" THEN body.params.val.id ELSE Absent

\* C1: tasks/cancel on a stored task, whether still completed or already
\* canceled by an earlier cancel, answers with a success envelope whose result
\* is the stored task, and the task's state is canceled afterwards.
C1_CancelIdempotent ==
    (/\ last # None
     /\ MethodIs(LastReq, "tasks/cancel")
     /\ last[1].was \in {"completed", "canceled"})
    => /\ IsResult(LastResp)
       /\ LET n == AddressedId(LastReq).val
          IN  /\ n \in DOMAIN tasks
              /\ tasks[n].status.state = "canceled"
              /\ LastResp.content.result = tasks[n]
              /\ LastResp.content.result.id = n

\* C1: a second cancel of the same task has been answered
C1_Witness ==
    /\ last # None
    /\ MethodIs(LastReq, "tasks/cancel")
    /\ last[1].was = "canceled"
    /\ IsResult(LastResp)
    /\ LastResp.content.result.status.state = "canceled"

\* C2: every stored task is completed or canceled; a task enters the store
\* completed, the only change a stored task undergoes is its state going from
\* completed to canceled, and no task leaves the store.
C2_TaskLifecycle ==
    /\ [](\A id \in DOMAIN tasks :
             tasks[id].status.state \in {"completed", "canceled"})
    /\ [][/\ \A id \in DOMAIN tasks :
                /\ id \in DOMAIN tasks'
                /\ \/ tasks'[id] = tasks[id]
                   \/ /\ tasks[id].status.state = "completed"
                      /\ tasks'[id] = [tasks[id] EXCEPT !.status.state = "canceled"]
          /\ \A id \in DOMAIN tasks' \ DOMAIN tasks :
                tasks'[id].status.state = "completed"]_vars

\* C2: a task was canceled and a later tasks/get still finds it, canceled
C2_Witness ==
    /\ last # None
    /\ MethodIs(LastReq, "tasks/get")
    /\ IsResult(LastResp)
    /\ LastResp.content.result.status.state = "canceled"
    /\ \E id \in DOMAIN tasks : tasks[id] = LastResp.content.result

\* the id is one a tasks/send response has returned
Returned(id) == id.kind = "str" /\ id.val \in sent

\* C3 as stated: tasks/get or tasks/cancel with an id no tasks/send has
\* returned is answered with error -32000, and tasks/get with a returned id
\* finds the task.
C3_LookupAsStated ==
    (/\ last # None
     /\ MethodIs(LastReq, "tasks/get") \/ MethodIs(LastReq, "tasks/cancel"))
    => LET id == AddressedId(LastReq)
       IN  /\ ~Returned(id) => IsError(LastResp, TaskNotFoundCode)
           /\ (Returned(id) /\ MethodIs(LastReq, "tasks/get")) =>
                 /\ IsResult(LastResp)
                 /\ LastResp.content.result.id = id.val

\* a well-formed envelope whose method is none of the three
UnknownMethod(body) ==
    /\ ~Malformed(body)
    /\ body.method.val \notin {"tasks/send", "tasks/get", "tasks/cancel"}

\* C4: a malformed body is answered with error -32700, a well-formed envelope
\* with an unknown method with error -32601, and handling either leaves the
\* task store, the identifiers generated and the skills in progress as they were.
C4_Rejections ==
    /\ [](last # None =>
            /\ Malformed(LastReq) =>
                 /\ IsError(LastResp, ParseErrorCode)
                 /\ LastResp.content.id = None
            /\ UnknownMethod(LastReq) =>
                 /\ IsError(LastResp, MethodNotFoundCode)
                 /\ LastResp.content.id = Some(LastReq.id))
    /\ [][(/\ last' # last
           /\ Malformed(last'[1].req) \/ UnknownMethod(last'[1].req))
          => UNCHANGED <<tasks, issued, inflight, sent>>]_vars

\* C4: with a task stored, an unknown method that carries tasks/send-like
\* params (a message and a skill id) has been rejected
C4_Witness ==
    /\ last # None
    /\ UnknownMethod(LastReq)
    /\ LastReq.params.kind = "dict"
    /\ LastReq.params.val.skillId \in KnownSkills
    /\ IsError(LastResp, MethodNotFoundCode)
    /\ DOMAIN tasks # {}

\* C5 as stated: every request is answered with HTTP 200 carrying a JSON-RPC
\* envelope (a result or an error).
C5_AlwaysEnvelope ==
    last # None =>
        /\ LastResp.status = 200
        /\ LastResp.content.kind \in {"result", "error"}

\* C6 as stated, for the tasks/send requests that reach execute_skill (the
\* message and its parts are objects): the request is answered with a success
\* envelope carrying a completed task, stored under its id, whose single
\* artifact's data part is the result of the skill (success=true, or
\* success=false with an error message); no exception leaves the skill.
C6_SendAlwaysCompletes ==
    (/\ last # None
     /\ MethodIs(LastReq, "tasks/send")
     /\ ~ExtractTaskParams(ParamsOf(LastReq).message).raised)
    => /\ IsResult(LastResp)
       /\ LET task == LastResp.content.result
              data == task.artifacts[1].parts[1].data
          IN  /\ task.status.state = "completed"
              /\ Len(task.artifacts) = 1 /\ Len(task.artifacts[1].parts) = 1
              /\ task.id \in DOMAIN tasks
              /\ tasks[task.id].artifacts = task.artifacts
              /\ data.success \in BOOLEAN
              /\ ~data.success => data.error.text # ""
              /\ LET params == ParamsOf(LastReq)
                     tp == ExtractTaskParams(params.message).task_params
                 IN  \E up \in Upstreams :
                        data = execute_skill(params.skillId, tp, apiKey, up).result[1]

---------------------------------------------------------------------------
(* SpecSearch: one skill invocation *)

\* the task store and the front end are idle
FrontEndIdle ==
    /\ tasks = <<>>
    /\ issued = 0
    /\ inflight = {}
    /\ last = None
    /\ sent = {}

InitSearch ==
    /\ apiKey \in BOOLEAN
    /\ call \in SkillCalls
    /\ out = None
    /\ FrontEndIdle

\* await execute_skill(skill_id, task_params)
RunSkill ==
    /\ call # None
    /\ out = None
    /\ out' = Some(execute_skill(call.skill_id, call.task_params, apiKey, call.up))
    /\ UNCHANGED <<apiKey, tasks, issued, inflight, last, sent, call>>

NextSearch == RunSkill

SpecSearch == InitSearch /\ [][NextSearch]_vars

---------------------------------------------------------------------------
(* Claims about the search skill (checked under SpecSearch) *)

\* search_hotels_live ran on a parameter dict
SearchRan ==
    /\ call # None /\ out # None
    /\ call.skill_id = "search-hotels-live"
    /\ call.task_params.kind = "dict"

\* ... and sent its query upstream
SearchSent == SearchRan /\ out[1].query # None

\* ... and returned success=True
SearchSucceeded == SearchSent /\ out[1].result[1].success

SearchParams == call.task_params.val

SearchQuery == out[1].query[1]

SearchHotels == out[1].result[1].hotels

\* C7 as stated: the price keys of the upstream query are decided by which of
\* minPrice / maxPrice are given (a given 0 included): both -> only
\* price = "min,max"; only one -> only that single-sided key; neither -> none.
C7_PriceEncodingAsStated ==
    SearchSent =>
        LET lo == SearchParams.minPrice
            hi == SearchParams.maxPrice
            q == SearchQuery
        IN  /\ (lo # None /\ hi # None) =>
                 /\ q.price = Some(<<lo[1], hi[1]>>)
                 /\ q.min_price = None /\ q.max_price = None
            /\ (lo # None /\ hi = None) =>
                 /\ q.min_price = lo
                 /\ q.price = None /\ q.max_price = None
            /\ (lo = None /\ hi # None) =>
                 /\ q.max_price = hi
                 /\ q.price = None /\ q.min_price = None
            /\ (lo = None /\ hi = None) =>
                 /\ q.price = None /\ q.min_price = None /\ q.max_price = None

\* position i of the upstream list is in the result's hotel list
Appears(i) == \E k \in 1..Len(SearchHotels) : SearchHotels[k].name = i

\* C8 as stated: with a minimum rating requested, one of the first 10 upstream
\* entries is in the result iff its rating is absent or >= the minimum (a
\* rating of 0 below the minimum is dropped); with no minimum nothing is dropped.
C8_RatingFilterAsStated ==
    SearchSucceeded =>
        LET m == SearchParams.minRating
            ps == call.up.properties
        IN  \A i \in 1..Min(Len(ps), MaxHotels) :
                Appears(i) <=>
                    \/ m = None
                    \/ ps[i].overall_rating = None
                    \/ ps[i].overall_rating[1] >= m[1]

\* the hotel list's k-th record was built from upstream position name
CameFrom(k) == call.up.properties[SearchHotels[k].name]

\* the image URLs the claim's wording gives: thumbnail if the key is present,
\* else "original" if present, else the object is dropped
RECURSIVE StatedUrls(_)
StatedUrls(imgs) ==
    IF imgs = <<>> THEN <<>>
    ELSE LET i == Head(imgs)
         IN  (IF i.thumbnail # None THEN i.thumbnail
              ELSE IF i.original # None THEN i.original
              ELSE <<>>) \o StatedUrls(Tail(imgs))

\* C9 as stated: images == the first 6 objects mapped to thumbnail, else
\* "original", objects with neither dropped.
C9_ImagesAsStated ==
    SearchSucceeded =>
        \A k \in 1..Len(SearchHotels) :
            SearchHotels[k].images = StatedUrls(Take(CameFrom(k).images, 6))

\* an image object has a usable URL: a non-empty thumbnail or original_image
HasUrl(img) == TruthyStr(img.thumbnail) \/ TruthyStr(img.original_image)

\* C9 amended: the images list holds, in source order, one URL for each of the
\* first 6 image objects that has a non-empty "thumbnail" or a non-empty
\* "original_image": the thumbnail when it is non-empty, else the
\* original_image; every other object (an "original" key alone included) is
\* dropped, and the list never exceeds 6 entries.
C9_ImagesAmended ==
    SearchSucceeded =>
        \A k \in 1..Len(SearchHotels) :
            LET raw == CameFrom(k).images
                imgs == SearchHotels[k].images
                kept == {i \in 1..Min(Len(raw), 6) : HasUrl(raw[i])}
            IN  /\ Len(imgs) <= 6
                /\ Len(imgs) = Cardinality(kept)
                /\ \A i \in kept :
                     LET pos == Cardinality({j \in kept : j <= i})
                     IN  imgs[pos] = IF TruthyStr(raw[i].thumbnail)
                                     THEN raw[i].thumbnail[1]
                                     ELSE raw[i].original_image[1]

\* C9: more than 6 source images, a thumbnail taken, an original_image taken
\* as fallback, an object dropped, and a 7th object with a URL left out
C9_Witness ==
    /\ SearchSucceeded
    /\ Len(SearchHotels) = 1
    /\ LET raw == CameFrom(1).images
       IN  /\ Len(raw) > 6
           /\ HasUrl(raw[7])
           /\ \E i \in 1..6 : TruthyStr(raw[i].thumbnail)
           /\ \E i \in 1..6 : ~TruthyStr(raw[i].thumbnail)
                              /\ TruthyStr(raw[i].original_image)
           /\ \E i \in 1..6 : ~HasUrl(raw[i])
           /\ Len(SearchHotels[1].images) = 5

\* C10: a successful result's hotels are an order-preserving subsequence of
\* the first 10 upstream entries (never an entry beyond the tenth), at most 10
\* records, and hotelCount is the length of the list.
C10_FirstTenInOrder ==
    SearchSucceeded =>
        LET ps == call.up.properties
            hs == SearchHotels
        IN  /\ Len(hs) <= 10
            /\ out[1].result[1].hotelCount = Len(hs)
            /\ \A k \in 1..Len(hs) :
                 /\ hs[k].name \in 1..Min(Len(ps), 10)
                 /\ hs[k].rating = ps[hs[k].name].overall_rating
            /\ \A k \in 1..(Len(hs) - 1) : hs[k].name < hs[k + 1].name

\* C10: more than 10 upstream entries, some of the first ten removed by the
\* rating filter, and an eleventh entry that would pass the filter
C10_Witness ==
    /\ SearchSucceeded
    /\ Len(call.up.properties) > 10
    /\ Len(SearchHotels) \in 1..9
    /\ ~Skipped(SearchParams.minRating, call.up.properties[11].overall_rating)

---------------------------------------------------------------------------
(* Claims about interleaved handlers (checked under SpecConc) *)

\* the identifiers of the tasks/send handlers suspended at the upstream call
InflightIds == {h.task_id : h \in inflight}

\* this step returns the response of a tasks/send: a suspended handler
\* resumed, or a handler ran to its response without suspending
SendReturns ==
    \/ inflight' # inflight /\ inflight' \subseteq inflight
    \/ issued' # issued /\ inflight' = inflight

\* C11: under every interleaving, (1) a tasks/send that returns inserts
\* exactly one task, under an identifier no stored task has, leaves every
\* other stored task as it was and returns the task it stored; (2) an
\* identifier is in the store only once its skill result exists: a suspended
\* handler's identifier is not stored, tasks/get and tasks/cancel of it answer
\* "Task not found", and every stored task carries its one artifact; (3) a
\* canceled task stays canceled, whichever tasks/send completes afterwards.
C11_NoLostUpdate ==
    /\ [](/\ \A h \in inflight : h.task_id \notin DOMAIN tasks
          /\ \A h1, h2 \in inflight : h1 # h2 => h1.task_id # h2.task_id
          /\ \A id \in DOMAIN tasks :
                /\ tasks[id].id = id
                /\ Len(tasks[id].artifacts) = 1
                /\ tasks[id].artifacts[1].parts[1].data.success \in BOOLEAN
          /\ (/\ last # None
              /\ MethodIs(LastReq, "tasks/get") \/ MethodIs(LastReq, "tasks/cancel")
              /\ AddressedId(LastReq).kind = "str"
              /\ AddressedId(LastReq).val \in InflightIds)
             => IsError(LastResp, TaskNotFoundCode))
    /\ [][/\ SendReturns =>
               \E id \in DOMAIN tasks' \ DOMAIN tasks :
                  /\ DOMAIN tasks' = DOMAIN tasks \cup {id}
                  /\ \A k \in DOMAIN tasks : tasks'[k] = tasks[k]
                  /\ IsResult(last'[1].resp)
                  /\ last'[1].resp.content.result = tasks'[id]
          /\ \A k \in DOMAIN tasks :
               tasks[k].status.state = "canceled" =>
                  /\ k \in DOMAIN tasks'
                  /\ tasks'[k].status.state = "canceled"]_vars

\* C11: the first tasks/send was still suspended while a second one, itself
\* answered by the upstream, completed and was canceled; then the first
\* completed, and the canceled task is still canceled
C11_Witness ==
    /\ last # None
    /\ MethodIs(LastReq, "tasks/send")
    /\ IsResult(LastResp)
    /\ LastResp.content.result.id = 1
    /\ DOMAIN tasks = {1, 2}
    /\ tasks[1].status.state = "completed"
    /\ tasks[2].status.state = "canceled"
    /\ tasks[2].artifacts[1].parts[1].data.success

=============================================================================
